---- MODULE Spec2Model ----
(***************************************************************************)
(* Hybrid graph-vector retrieval engine: knowledge-graph construction      *)
(* (GraphBuilding.py), chunking and deduplication (Preprocessing.py) and   *)
(* graph-aware retrieval (AgentWorkflow.py).                               *)
(*                                                                         *)
(* Conventions.  Python dicts are functions whose DOMAIN is the set of    *)
(* keys present.  Confidences and edge weights are counted in tenths      *)
(* (0.9 is 9, the default 0.5 is 5).  Entity names are strings, so that   *)
(* len(e) and substring tests are computed on the characters.              *)
(***************************************************************************)
EXTENDS Integers, Sequences, FiniteSets, TLC

VARIABLES
    pc,          \* position inside build_graph
    total,       \* total = min(len(chunks), 50) of the current call
    idx,         \* loop index of "for idx, c in enumerate(chunks[:total])"
    ecount,      \* entity items the oracle has returned so far in this pass
    rcount,      \* relation items the oracle has returned so far in this pass
    G,           \* the DiGraph under construction / returned
    file,        \* GRAPH_FILE on disk
    how,         \* how the last call produced its graph: "none", "loaded", "built"
    calls,       \* extract_entities invocations during the current call
    mentions,    \* history: accepted entity mentions per name in this pass
    obsCount,    \* history: accepted relation occurrences per directed pair
    obsWeight,   \* history: sum of their confidences per directed pair
    chunkChanged,\* history: G was modified since the current chunk's iteration began
    malformed,   \* history: the current chunk's oracle result failed or was malformed
    relSkipped,  \* history: a relation dict of the current chunk lacked source or target
    ck,          \* the frame of a chunk_text call
    dd,          \* the frame of a deduplicate_chunks call
    rt,          \* the frame of a graph_aware_retrieval call
    vr,          \* the frame of a retrieve_with_graph call
    mh           \* the frame of a multi_hop_reasoning call

buildVars == <<pc, total, idx, ecount, rcount, file, how, calls,
               mentions, obsCount, obsWeight, chunkChanged, malformed, relSkipped>>
vars == <<buildVars, G, ck, dd, rt, vr, mh>>

----------------------------------------------------------------------------
(* Bounds of the model: len(chunks), and the entity and relation items the
   oracle returns over one pass *)
MaxChunks == 3
MaxEntities == 2
MaxRelations == 3

(* Bounds of chunk_text's inputs *)
MaxWords == 24
MaxSize == 22
MaxOverlap == 23

(* Bound of deduplicate_chunks' input *)
MaxDedupChunks == 4

(* Bound of retrieve_with_graph's input: len(chunks) *)
MaxVecChunks == 3

(* Bound of multi_hop_reasoning's input: max_hops *)
MaxHops == 3

(* Bounds of graph_aware_retrieval's inputs *)
MaxEdges == 2
MaxQueryLen == 1
MaxK == 2

(* total = min(len(chunks), 50), with the cap scaled down to 2 *)
ExtractionCap == 2

(* Names the oracle may return; "AB" has length 2 and fails len(e) > 2 *)
Names == {"AB", "AAPL", "Fed"}
Pairs == Names \X Names

None == "<None>"
EmptyDict == [k \in {} |-> None]

Min(a, b) == IF a < b THEN a ELSE b

----------------------------------------------------------------------------
(* Python dict access *)
Has(d, k) == k \in DOMAIN d
Get(d, k, default) == IF Has(d, k) THEN d[k] ELSE default
Put(d, k, v) == [x \in (DOMAIN d) \cup {k} |-> IF x = k THEN v ELSE d[x]]

(* truthiness of a value that is a string or None *)
Truthy(x) == x # None /\ x # ""

----------------------------------------------------------------------------
(* networkx.DiGraph: nodes and edges in insertion order, attribute dicts *)
EmptyGraph ==
    [nodes |-> <<>>, nattr |-> EmptyDict, edges |-> <<>>, eattr |-> EmptyDict]

SeqToSet(s) == {s[i] : i \in 1..Len(s)}
NodeSet(g) == SeqToSet(g.nodes)
EdgeSet(g) == SeqToSet(g.edges)

has_node(g, n) == n \in NodeSet(g)
has_edge(g, u, v) == <<u, v>> \in EdgeSet(g)

(* G.add_node(n, **attrs) for a node not yet in the graph *)
add_node(g, n, attrs) ==
    [g EXCEPT !.nodes = Append(@, n), !.nattr = Put(@, n, attrs)]

(* G.add_edge(u, v, **attrs) for an edge not yet in the graph: endpoints
   that are not nodes yet are created with an empty attribute dict *)
add_edge(g, u, v, attrs) ==
    LET g1 == IF has_node(g, u) THEN g ELSE add_node(g, u, EmptyDict)
        g2 == IF has_node(g1, v) THEN g1 ELSE add_node(g1, v, EmptyDict)
    IN  [g2 EXCEPT !.edges = Append(@, <<u, v>>),
                   !.eattr = Put(@, <<u, v>>, attrs)]

(* nx.set_node_attributes(G, values, name) *)
set_node_attributes(g, values, name) ==
    [g EXCEPT !.nattr = [n \in DOMAIN @ |->
        IF n \in DOMAIN values THEN Put(@[n], name, values[n]) ELSE @[n]]]

Successors(g, u) == {v \in NodeSet(g) : <<u, v>> \in EdgeSet(g)}
Predecessors(g, v) == {u \in NodeSet(g) : <<u, v>> \in EdgeSet(g)}

RECURSIVE SumOver(_, _)
SumOver(S, f) ==
    IF S = {} THEN 0
    ELSE LET x == CHOOSE y \in S : TRUE IN f[x] + SumOver(S \ {x}, f)

(* nx.pagerank(G): power iteration with alpha = 0.85 over the edges weighted
   by "weight", dangling nodes spread uniformly, started from 1/N.  Ranks are
   fixed-point numbers in units of 1/PRScale; the iteration ends at a fixed
   point or after max_iter rounds. *)
PRScale == 1000
PRAlpha == 85
PRMaxIter == 100

OutWeight(g, u) ==
    SumOver({<<u, v>> : v \in Successors(g, u)},
            [e \in EdgeSet(g) |-> g.eattr[e]["weight"]])

PRStep(g, x) ==
    LET N == Len(g.nodes)
        dangling == {u \in NodeSet(g) : OutWeight(g, u) = 0}
        D == SumOver(dangling, x)
        inflow(v) ==
            SumOver(Predecessors(g, v) \ dangling,
                    [u \in NodeSet(g) |->
                        IF <<u, v>> \in EdgeSet(g) /\ OutWeight(g, u) > 0
                        THEN (x[u] * g.eattr[<<u, v>>]["weight"]) \div OutWeight(g, u)
                        ELSE 0])
    IN  [v \in NodeSet(g) |->
            (PRAlpha * (inflow(v) + D \div N) + (100 - PRAlpha) * (PRScale \div N))
                \div 100]

RECURSIVE PRIterate(_, _, _)
PRIterate(g, x, rounds) ==
    LET y == PRStep(g, x)
    IN  IF y = x \/ rounds = 0 THEN y ELSE PRIterate(g, y, rounds - 1)

pagerank(g) ==
    PRIterate(g, [v \in NodeSet(g) |-> PRScale \div Len(g.nodes)], PRMaxIter)

(* nx.connected_components(G.to_undirected()) enumerated: the i-th component
   found while scanning the nodes in insertion order gets community i *)
Neighbours(g, u) == Successors(g, u) \cup Predecessors(g, u)

RECURSIVE Component(_, _)
Component(g, S) ==
    LET T == S \cup UNION {Neighbours(g, u) : u \in S}
    IN  IF T = S THEN S ELSE Component(g, T)

RECURSIVE CommunitiesFrom(_, _, _, _, _)
CommunitiesFrom(g, k, seen, i, acc) ==
    IF k > Len(g.nodes) THEN acc
    ELSE IF g.nodes[k] \in seen THEN CommunitiesFrom(g, k + 1, seen, i, acc)
    ELSE LET comp == Component(g, {g.nodes[k]})
         IN  CommunitiesFrom(g, k + 1, seen \cup comp, i + 1,
                 [n \in NodeSet(g) |-> IF n \in comp THEN i ELSE acc[n]])

connected_communities(g) ==
    CommunitiesFrom(g, 1, {}, 0, [n \in NodeSet(g) |-> 0])

----------------------------------------------------------------------------
(* What extract_entities can hand to build_graph.  An entity item is a
   string, a JSON null, or a number; a relation item is a dict with any of
   the four keys, or a value that is no dict. *)
EntityItems ==
    {[kind |-> "str", val |-> n] : n \in Names}
        \cup {[kind |-> "null", val |-> ""], [kind |-> "number", val |-> ""]}

Field(k, present, v) == IF present THEN (k :> v) ELSE EmptyDict

RelationDicts ==
    { Field("source", sp, s) @@ Field("target", tp, "Fed")
        @@ Field("relation", rp, "affects") @@ Field("confidence", cp, 9) :
        sp \in BOOLEAN, s \in Names, tp \in BOOLEAN,
        rp \in BOOLEAN, cp \in BOOLEAN }

RelationItems ==
    {[kind |-> "dict", val |-> d] : d \in RelationDicts}
        \cup {[kind |-> "other", val |-> EmptyDict]}

(* the three shapes of result that build_graph distinguishes at line 81-84:
   the fallback {"entities": [], "relations": []} of the except branch, a dict
   whose "entities" is null (and "relations" empty), and a dict of two lists *)
Outcomes == {"error", "entities_null", "ok"}

----------------------------------------------------------------------------
(* lines 84-90: the entity loop body *)
EntityRaises(item) == item.kind = "number"          \* len(e) of a number
EntityAccepted(item) ==
    item.kind = "str" /\ Truthy(item.val) /\ Len(item.val) > 2

EntityMerge(g, e) ==
    IF has_node(g, e)
    THEN [g EXCEPT !.nattr[e] = Put(@, "frequency", Get(@, "frequency", 1) + 1)]
    ELSE add_node(g, e, [frequency |-> 1, type |-> "entity"])

(* lines 93-106: the relation loop body *)
RelationRaises(item) == item.kind # "dict"          \* r.get of a non-dict
RelSrc(r) == Get(r, "source", None)
RelTgt(r) == Get(r, "target", None)
RelLabel(r) == Get(r, "relation", "related_to")
RelConf(r) == Get(r, "confidence", 5)

MissingEndpoint(r) == ~Has(r, "source") \/ ~Has(r, "target")

(* the guard without the truthiness tests on src and tgt *)
RelationAcceptedNoneAllowed(r) == RelSrc(r) # RelTgt(r)

RelationAccepted(r) ==
    Truthy(RelSrc(r)) /\ Truthy(RelTgt(r)) /\ RelSrc(r) # RelTgt(r)

(* the merge with "=" in place of "+=" on the weight of an existing edge *)
RelationMergeOverwrite(g, r) ==
    LET src == RelSrc(r)
        tgt == RelTgt(r)
    IN  IF has_edge(g, src, tgt)
        THEN [g EXCEPT !.eattr[<<src, tgt>>] =
                 Put(Put(@, "weight", RelConf(r)),
                     "frequency", Get(@, "frequency", 1) + 1)]
        ELSE add_edge(g, src, tgt,
                 [relation |-> RelLabel(r), weight |-> RelConf(r), frequency |-> 1])

RelationMerge(g, r) ==
    LET src == RelSrc(r)
        tgt == RelTgt(r)
    IN  IF has_edge(g, src, tgt)
        THEN [g EXCEPT !.eattr[<<src, tgt>>] =
                 Put(Put(@, "weight", @["weight"] + RelConf(r)),
                     "frequency", Get(@, "frequency", 1) + 1)]
        ELSE add_edge(g, src, tgt,
                 [relation |-> RelLabel(r), weight |-> RelConf(r), frequency |-> 1])

----------------------------------------------------------------------------
(* Snapshot file: absent, present but not loadable, or a pickled graph *)
NoFile == [state |-> "absent", graph |-> EmptyGraph]
BadFile == [state |-> "corrupt", graph |-> EmptyGraph]
Pickled(g) == [state |-> "valid", graph |-> g]

(* frames of the other operations while they are not running *)
CkIdle == [pc |-> "idle"]
DdIdle == [pc |-> "idle"]
RtIdle == [pc |-> "idle"]
VrIdle == [pc |-> "idle"]
MhIdle == [pc |-> "idle"]

ZeroNames == [n \in Names |-> 0]
ZeroPairs == [p \in Pairs |-> 0]

Init ==
    /\ pc = "idle"
    /\ total = 0
    /\ idx = 0
    /\ ecount = 0
    /\ rcount = 0
    /\ G = EmptyGraph
    /\ file = NoFile
    /\ how = "none"
    /\ calls = 0
    /\ mentions = ZeroNames
    /\ obsCount = ZeroPairs
    /\ obsWeight = ZeroPairs
    /\ chunkChanged = FALSE
    /\ malformed = FALSE
    /\ relSkipped = FALSE
    /\ ck = CkIdle
    /\ dd = DdIdle
    /\ rt = RtIdle
    /\ vr = VrIdle
    /\ mh = MhIdle

(* the load branch without its "return G": the loaded graph goes through the
   chunk loop and is saved again *)
LoadSnapshotThenRebuild ==
    /\ pc = "idle"
    /\ file.state = "valid"
    /\ \E n \in 0..MaxChunks : total' = Min(n, ExtractionCap)
    /\ G' = file.graph
    /\ how' = "none"
    /\ pc' = "loop"
    /\ UNCHANGED <<idx, ecount, rcount, file, calls, mentions, obsCount,
                   obsWeight, chunkChanged, malformed, relSkipped>>
    /\ UNCHANGED <<ck, dd, rt, vr, mh>>

(* lines 60-65: the snapshot exists and loads: return it *)
LoadSnapshot ==
    /\ pc = "idle"
    /\ file.state = "valid"
    /\ G' = file.graph
    /\ how' = "loaded"
    /\ calls' = 0
    /\ pc' = "returned"
    /\ UNCHANGED <<total, idx, ecount, rcount, file, mentions, obsCount,
                   obsWeight, chunkChanged, malformed, relSkipped>>
    /\ UNCHANGED <<ck, dd, rt, vr, mh>>

(* lines 60-77: no snapshot, or it fails to load: start a fresh graph *)
StartFreshBuild ==
    /\ pc = "idle"
    /\ file.state # "valid"
    /\ \E n \in 0..MaxChunks : total' = Min(n, ExtractionCap)
    /\ G' = EmptyGraph
    /\ how' = "none"
    /\ calls' = 0
    /\ idx' = 0
    /\ ecount' = 0
    /\ rcount' = 0
    /\ mentions' = ZeroNames
    /\ obsCount' = ZeroPairs
    /\ obsWeight' = ZeroPairs
    /\ chunkChanged' = FALSE
    /\ malformed' = FALSE
    /\ relSkipped' = FALSE
    /\ pc' = "loop"
    /\ UNCHANGED file
    /\ UNCHANGED <<ck, dd, rt, vr, mh>>

(* the except/continue of lines 109-111 and the normal end of an iteration
   both go on with the next chunk *)
NextChunk ==
    /\ idx' = idx + 1
    /\ pc' = "loop"

(* line 81: data = extract_entities(c["text"]) *)
ExtractEntities(outcome) ==
    /\ pc = "loop"
    /\ idx < total
    /\ calls' = calls + 1
    /\ chunkChanged' = FALSE
    /\ malformed' = (outcome # "ok")
    /\ relSkipped' = FALSE
    /\ IF outcome = "ok"
       THEN pc' = "entities" /\ idx' = idx
       ELSE NextChunk
    /\ UNCHANGED <<total, ecount, rcount, G, file, how, mentions, obsCount,
                   obsWeight>>
    /\ UNCHANGED <<ck, dd, rt, vr, mh>>

(* one iteration of "for e in data.get('entities', [])" *)
EntityStep(item) ==
    /\ pc = "entities"
    /\ ecount < MaxEntities
    /\ ecount' = ecount + 1
    /\ IF EntityRaises(item)
       THEN /\ NextChunk
            /\ malformed' = TRUE
            /\ UNCHANGED <<G, mentions>>
       ELSE /\ UNCHANGED <<pc, idx, malformed>>
            /\ IF EntityAccepted(item)
               THEN /\ G' = EntityMerge(G, item.val)
                    /\ mentions' = [mentions EXCEPT ![item.val] = @ + 1]
               ELSE UNCHANGED <<G, mentions>>
    /\ chunkChanged' = (chunkChanged \/ G' # G)
    /\ UNCHANGED <<total, rcount, file, how, calls, obsCount, obsWeight,
                   relSkipped>>
    /\ UNCHANGED <<ck, dd, rt, vr, mh>>

(* the entity list is exhausted: go on to the relation loop *)
EntitiesDone ==
    /\ pc = "entities"
    /\ pc' = "relations"
    /\ UNCHANGED <<total, idx, ecount, rcount, G, file, how, calls, mentions,
                   obsCount, obsWeight, chunkChanged, malformed, relSkipped>>
    /\ UNCHANGED <<ck, dd, rt, vr, mh>>

(* one iteration of "for r in data.get('relations', [])" *)
RelationStep(item) ==
    /\ pc = "relations"
    /\ rcount < MaxRelations
    /\ rcount' = rcount + 1
    /\ IF RelationRaises(item)
       THEN /\ NextChunk
            /\ malformed' = TRUE
            /\ UNCHANGED <<G, obsCount, obsWeight>>
       ELSE /\ UNCHANGED <<pc, idx, malformed>>
            /\ IF RelationAccepted(item.val)
               THEN LET p == <<RelSrc(item.val), RelTgt(item.val)>>
                    IN  /\ G' = RelationMerge(G, item.val)
                        /\ obsCount' = [obsCount EXCEPT ![p] = @ + 1]
                        /\ obsWeight' =
                             [obsWeight EXCEPT ![p] = @ + RelConf(item.val)]
               ELSE UNCHANGED <<G, obsCount, obsWeight>>
    /\ chunkChanged' = (chunkChanged \/ G' # G)
    /\ relSkipped' = (relSkipped \/ (item.kind = "dict" /\ MissingEndpoint(item.val)))
    /\ UNCHANGED <<total, ecount, file, how, calls, mentions>>
    /\ UNCHANGED <<ck, dd, rt, vr, mh>>

(* the relation list is exhausted: line 108, next iteration *)
RelationsDone ==
    /\ pc = "relations"
    /\ NextChunk
    /\ UNCHANGED <<total, ecount, rcount, G, file, how, calls, mentions,
                   obsCount, obsWeight, chunkChanged, malformed, relSkipped>>
    /\ UNCHANGED <<ck, dd, rt, vr, mh>>

(* the loop over chunks[:total] is over; idx, total, data and the per-chunk
   bookkeeping are not read again *)
LoopDone ==
    /\ pc = "loop"
    /\ idx >= total
    /\ pc' = "pagerank"
    /\ total' = 0
    /\ idx' = 0
    /\ ecount' = 0
    /\ rcount' = 0
    /\ malformed' = FALSE
    /\ relSkipped' = FALSE
    /\ chunkChanged' = FALSE
    /\ UNCHANGED <<G, file, how, calls, mentions, obsCount, obsWeight>>
    /\ UNCHANGED <<ck, dd, rt, vr, mh>>

(* lines 117-123: nx.pagerank(G) and set_node_attributes(G, pagerank,
   "pagerank"); skipped for a graph without nodes *)
ComputePageRank ==
    /\ pc = "pagerank"
    /\ G' = IF Len(G.nodes) > 0
            THEN set_node_attributes(G, pagerank(G), "pagerank")
            ELSE G
    /\ pc' = "community"
    /\ UNCHANGED <<total, idx, ecount, rcount, file, how, calls, mentions,
                   obsCount, obsWeight, chunkChanged, malformed, relSkipped>>
    /\ UNCHANGED <<ck, dd, rt, vr, mh>>

(* lines 126-140: one community id per connected component of the undirected
   projection, in discovery order *)
DetectCommunities ==
    /\ pc = "community"
    /\ G' = IF Len(G.nodes) > 0
            THEN set_node_attributes(G, connected_communities(G), "community")
            ELSE G
    /\ pc' = "save"
    /\ UNCHANGED <<total, idx, ecount, rcount, file, how, calls, mentions,
                   obsCount, obsWeight, chunkChanged, malformed, relSkipped>>
    /\ UNCHANGED <<ck, dd, rt, vr, mh>>

(* lines 143-150: pickle the graph; open() may fail (the file is left as it
   was), the dump may fail half-way (a file that does not load), or succeed *)
SaveGraph(result) ==
    /\ pc = "save"
    /\ file' = CASE result = "open_failed" -> file
                 [] result = "dump_failed" -> BadFile
                 [] OTHER -> Pickled(G)
    /\ how' = "built"
    /\ pc' = "returned"
    /\ UNCHANGED <<total, idx, ecount, rcount, G, calls, mentions, obsCount,
                   obsWeight, chunkChanged, malformed, relSkipped>>
    /\ UNCHANGED <<ck, dd, rt, vr, mh>>

(* line 65 / line 150: return G.  The caller keeps the graph; the locals of
   the call (and the history of the pass) are gone *)
Return ==
    /\ pc = "returned"
    /\ pc' = "idle"
    /\ total' = 0
    /\ idx' = 0
    /\ ecount' = 0
    /\ rcount' = 0
    /\ calls' = 0
    /\ mentions' = ZeroNames
    /\ obsCount' = ZeroPairs
    /\ obsWeight' = ZeroPairs
    /\ chunkChanged' = FALSE
    /\ malformed' = FALSE
    /\ relSkipped' = FALSE
    /\ UNCHANGED <<G, file, how>>
    /\ UNCHANGED <<ck, dd, rt, vr, mh>>

Next ==
    \/ LoadSnapshot
    \/ StartFreshBuild
    \/ \E o \in Outcomes : ExtractEntities(o)
    \/ \E item \in EntityItems : EntityStep(item)
    \/ EntitiesDone
    \/ \E item \in RelationItems : RelationStep(item)
    \/ RelationsDone
    \/ LoopDone
    \/ ComputePageRank
    \/ DetectCommunities
    \/ \E result \in {"open_failed", "dump_failed", "saved"} : SaveGraph(result)
    \/ Return

Spec == Init /\ [][Next]_vars

----------------------------------------------------------------------------
(* Preprocessing.py: chunk_text(text, size, overlap).  The text is its list
   of words text.split(), numbered 1..nwords; a chunk is the list of words of
   its window, which is what " ".join(...) followed by split() gives back. *)
MIN_CHUNK_SIZE == 20

(* membership of i in range(0, stop, step), step # 0 *)
InRange(i, stop, step) == IF step > 0 THEN i < stop ELSE i > stop

(* words[i:i + size] *)
Window(nwords, i, size) ==
    [j \in 1..(Min(i + size, nwords) - i) |-> i + j]

ChunkInit ==
    /\ ck \in {[pc |-> "call", nwords |-> n, size |-> sz, overlap |-> ov,
                i |-> 0, chunks |-> <<>>] :
                 n \in 0..MaxWords, sz \in 1..MaxSize, ov \in 0..MaxOverlap}
    /\ pc = "idle" /\ total = 0 /\ idx = 0 /\ ecount = 0 /\ rcount = 0
    /\ G = EmptyGraph /\ file = NoFile /\ how = "none" /\ calls = 0
    /\ mentions = ZeroNames /\ obsCount = ZeroPairs /\ obsWeight = ZeroPairs
    /\ chunkChanged = FALSE /\ malformed = FALSE /\ relSkipped = FALSE
    /\ dd = DdIdle
    /\ rt = RtIdle
    /\ vr = VrIdle
    /\ mh = MhIdle

(* line 64: range(0, len(words), size - overlap) raises ValueError when the
   step is zero *)
ChunkRangeError ==
    /\ ck.pc = "call"
    /\ ck.size - ck.overlap = 0
    /\ ck' = [ck EXCEPT !.pc = "raised"]
    /\ UNCHANGED <<buildVars, G, dd, rt, vr, mh>>

(* lines 62-64: the loop begins at i = 0 *)
ChunkBegin ==
    /\ ck.pc = "call"
    /\ ck.size - ck.overlap # 0
    /\ ck' = [ck EXCEPT !.pc = "loop", !.i = 0]
    /\ UNCHANGED <<buildVars, G, dd, rt, vr, mh>>

(* lines 64-67: one iteration *)
ChunkIter ==
    /\ ck.pc = "loop"
    /\ InRange(ck.i, ck.nwords, ck.size - ck.overlap)
    /\ LET chunk == Window(ck.nwords, ck.i, ck.size)
       IN  ck' = [ck EXCEPT
                    !.chunks = IF Len(chunk) > MIN_CHUNK_SIZE
                               THEN Append(@, chunk) ELSE @,
                    !.i = @ + (ck.size - ck.overlap)]
    /\ UNCHANGED <<buildVars, G, dd, rt, vr, mh>>

(* line 68: the range is exhausted *)
ChunkReturn ==
    /\ ck.pc = "loop"
    /\ ~InRange(ck.i, ck.nwords, ck.size - ck.overlap)
    /\ ck' = [ck EXCEPT !.pc = "returned"]
    /\ UNCHANGED <<buildVars, G, dd, rt, vr, mh>>

ChunkNext == ChunkRangeError \/ ChunkBegin \/ ChunkIter \/ ChunkReturn

ChunkSpec == ChunkInit /\ [][ChunkNext]_vars

----------------------------------------------------------------------------
(* Preprocessing.py: deduplicate_chunks(chunks).  Chunks are their indices
   0..n-1; sim[<<i, j>>], i < j, is the cosine similarity of chunks i and j
   in hundredths, which is all of the similarity matrix the code reads. *)
SIMILARITY_THRESHOLD == 95
SimValues == {94, 95, 96}

UpperPairs(n) == {p \in (0..(n - 1)) \X (0..(n - 1)) : p[1] < p[2]}
SimMatrices(n) == [UpperPairs(n) -> SimValues]

(* line 81 with the test dropped *)
AlreadyUsedNever(used, i) == FALSE

(* line 81: if i in used_indices *)
AlreadyUsed(used, i) == i \in used

(* line 89 with >= in place of > *)
IsDuplicateGeq(sim, i, j) == j > i /\ sim[<<i, j>>] >= SIMILARITY_THRESHOLD

(* line 89: j > i and sim > SIMILARITY_THRESHOLD *)
IsDuplicate(sim, i, j) == j > i /\ sim[<<i, j>>] > SIMILARITY_THRESHOLD

(* lines 80-90: the body of the loop for index st.i *)
DedupBody(st) ==
    IF AlreadyUsed(st.used, st.i)
    THEN [st EXCEPT !.i = @ + 1]
    ELSE [st EXCEPT
            !.unique = Append(@, st.i),
            !.used = @ \cup {st.i}
                       \cup {j \in 0..(st.n - 1) : IsDuplicate(st.sim, st.i, j)},
            !.i = @ + 1]

DedupFrame(n, sim) ==
    [pc |-> "call", n |-> n, sim |-> sim, i |-> 0, unique |-> <<>>, used |-> {}]

RECURSIVE DedupRun(_)
DedupRun(st) == IF st.i >= st.n THEN st.unique ELSE DedupRun(DedupBody(st))

(* the whole function: the indices of the chunks it returns *)
deduplicate_chunks(n, sim) == DedupRun(DedupFrame(n, sim))

DedupInit ==
    /\ dd \in UNION {{DedupFrame(n, f) : f \in SimMatrices(n)} :
                        n \in 0..MaxDedupChunks}
    /\ pc = "idle" /\ total = 0 /\ idx = 0 /\ ecount = 0 /\ rcount = 0
    /\ G = EmptyGraph /\ file = NoFile /\ how = "none" /\ calls = 0
    /\ mentions = ZeroNames /\ obsCount = ZeroPairs /\ obsWeight = ZeroPairs
    /\ chunkChanged = FALSE /\ malformed = FALSE /\ relSkipped = FALSE
    /\ ck = CkIdle
    /\ rt = RtIdle
    /\ vr = VrIdle
    /\ mh = MhIdle

(* lines 73-74: if not chunks: return chunks *)
DedupEmpty ==
    /\ dd.pc = "call"
    /\ dd.n = 0
    /\ dd' = [dd EXCEPT !.pc = "returned"]
    /\ UNCHANGED <<buildVars, G, ck, rt, vr, mh>>

(* lines 76-78: the embeddings are computed, the loop begins *)
DedupEncode ==
    /\ dd.pc = "call"
    /\ dd.n > 0
    /\ dd' = [dd EXCEPT !.pc = "loop"]
    /\ UNCHANGED <<buildVars, G, ck, rt, vr, mh>>

(* lines 80-90: one iteration of the loop over the chunks *)
DedupIter ==
    /\ dd.pc = "loop"
    /\ dd.i < dd.n
    /\ dd' = DedupBody(dd)
    /\ UNCHANGED <<buildVars, G, ck, rt, vr, mh>>

(* line 92: return unique_chunks *)
DedupReturn ==
    /\ dd.pc = "loop"
    /\ dd.i >= dd.n
    /\ dd' = [dd EXCEPT !.pc = "returned"]
    /\ UNCHANGED <<buildVars, G, ck, rt, vr, mh>>

DedupNext == DedupEmpty \/ DedupEncode \/ DedupIter \/ DedupReturn

DedupSpec == DedupInit /\ [][DedupNext]_vars

----------------------------------------------------------------------------
(* AgentWorkflow.py: graph_aware_retrieval(G, query, k).  The query is the
   list of its whitespace-separated tokens; scores are in hundredths, with
   "pagerank" attributes in units of 1/PRScale. *)
UpperCase == "ABCDEFGHIJKLMNOPQRSTUVWXYZ"
LowerCase == "abcdefghijklmnopqrstuvwxyz"

ToLower ==
    [c \in {SubSeq(UpperCase, i, i) : i \in 1..Len(UpperCase)} |->
        LET i == CHOOSE i \in 1..Len(UpperCase) : SubSeq(UpperCase, i, i) = c
        IN  SubSeq(LowerCase, i, i)]

LowerChar(c) == IF c \in DOMAIN ToLower THEN ToLower[c] ELSE c

(* str.lower() *)
RECURSIVE LowerFrom(_, _)
LowerFrom(str, i) ==
    IF i > Len(str) THEN ""
    ELSE LowerChar(SubSeq(str, i, i)) \o LowerFrom(str, i + 1)
Lower(str) == LowerFrom(str, 1)

(* kw in node_lower, for a non-empty kw *)
Contains(kw, str) ==
    \E i \in 1..(Len(str) - Len(kw) + 1) : SubSeq(str, i, i + Len(kw) - 1) = kw

(* line 53: keywords = query.lower().split() *)
Keywords(query) == [i \in 1..Len(query) |-> Lower(query[i])]

(* lines 57-69: the score of one node *)
NodeScore(g, keywords, node) ==
    LET matches ==
            Cardinality({i \in 1..Len(keywords) : Contains(keywords[i], Lower(node))})
    IN  200 * matches
          + (Get(g.nattr[node], "pagerank", 0) * 1000) \div PRScale
          + Get(g.nattr[node], "frequency", 0) * 10

(* lines 54-72: node_scores, a dict in the order of G.nodes() holding the
   nodes with a positive score *)
RECURSIVE NodeScoresFrom(_, _, _)
NodeScoresFrom(g, keywords, i) ==
    IF i > Len(g.nodes) THEN <<>>
    ELSE LET node == g.nodes[i]
             sc == NodeScore(g, keywords, node)
         IN  (IF sc > 0 THEN <<[node |-> node, score |-> sc]>> ELSE <<>>)
                 \o NodeScoresFrom(g, keywords, i + 1)
NodeScores(g, keywords) == NodeScoresFrom(g, keywords, 1)

(* a descending sort that puts items of equal score in the reverse of their
   order *)
SortedByScoreDescTiesReversed(items) ==
    LET rank(i) ==
            Cardinality({j \in 1..Len(items) :
                \/ items[j].score > items[i].score
                \/ items[j].score = items[i].score /\ j > i}) + 1
    IN  [r \in 1..Len(items) |-> items[CHOOSE i \in 1..Len(items) : rank(i) = r]]

(* sorted(items, key=score, reverse=True): a stable sort, items of equal
   score keep their order *)
SortedByScoreDesc(items) ==
    LET rank(i) ==
            Cardinality({j \in 1..Len(items) :
                \/ items[j].score > items[i].score
                \/ items[j].score = items[i].score /\ j < i}) + 1
    IN  [r \in 1..Len(items) |-> items[CHOOSE i \in 1..Len(items) : rank(i) = r]]

(* line 75: the first k of the sorted items *)
TopNodes(g, keywords, k) ==
    LET sorted == SortedByScoreDesc(NodeScores(g, keywords))
    IN  SubSeq(sorted, 1, Min(k, Len(sorted)))

(* lines 78-82 with the neighbours of the neighbours added as well *)
NodesToIncludeTwoHops(g, top) ==
    LET sel == {top[i].node : i \in 1..Len(top)}
        one == sel \cup UNION {Predecessors(g, n) \cup Successors(g, n) : n \in sel}
    IN  one \cup UNION {Predecessors(g, n) \cup Successors(g, n) : n \in one}

(* lines 78-82: the selected nodes, their predecessors and successors *)
NodesToInclude(g, top) ==
    LET sel == {top[i].node : i \in 1..Len(top)}
    IN  sel \cup UNION {Predecessors(g, n) \cup Successors(g, n) : n \in sel}

(* line 84: G.subgraph(nodes).copy(), the induced subgraph with its
   attributes; the copy is held as sets, its iteration order is not used *)
SubgraphCopy(g, nodes) ==
    LET es == {e \in EdgeSet(g) : e[1] \in nodes /\ e[2] \in nodes}
    IN  [nodes |-> nodes \cap NodeSet(g),
         nattr |-> [n \in nodes \cap NodeSet(g) |-> g.nattr[n]],
         edges |-> es,
         eattr |-> [e \in es |-> g.eattr[e]]]

(* The graphs retrieval is run on: up to three nodes in any insertion order,
   each without attributes (as add_edge creates it), with a frequency only,
   or with frequency and pagerank; up to MaxEdges edges between them *)
RetrievalNames == {"AAPL", "Apple", "Fed"}
QueryTokens == {"Apple", "fed", "p"}
NodeAttrChoices ==
    {EmptyDict,
     [frequency |-> 1, type |-> "entity"],
     [frequency |-> 2, type |-> "entity", pagerank |-> 300]}

NodeOrders ==
    UNION {{sq \in [1..m -> RetrievalNames] :
                \A a, b \in 1..m : a # b => sq[a] # sq[b]} :
           m \in 0..Cardinality(RetrievalNames)}

RECURSIVE SetToSeq(_)
SetToSeq(S) ==
    IF S = {} THEN <<>>
    ELSE LET x == CHOOSE y \in S : TRUE IN <<x>> \o SetToSeq(S \ {x})

EdgeChoices(nodes) ==
    {E \in SUBSET {p \in SeqToSet(nodes) \X SeqToSet(nodes) : p[1] # p[2]} :
        Cardinality(E) <= MaxEdges}

RetrievalGraphs ==
    UNION {{[nodes |-> ns,
             nattr |-> na,
             edges |-> SetToSeq(E),
             eattr |-> [e \in E |->
                          [relation |-> "affects", weight |-> 9, frequency |-> 1]]] :
              na \in [SeqToSet(ns) -> NodeAttrChoices], E \in EdgeChoices(ns)} :
           ns \in NodeOrders}

Queries == UNION {[1..m -> QueryTokens] : m \in 0..MaxQueryLen}

EmptySubgraph ==
    [nodes |-> {}, nattr |-> EmptyDict, edges |-> {}, eattr |-> EmptyDict]

RetrievalInit ==
    /\ G \in RetrievalGraphs
    /\ rt \in {[pc |-> "call", query |-> q, k |-> k, top |-> <<>>,
                sub |-> EmptySubgraph] : q \in Queries, k \in 0..MaxK}
    /\ pc = "idle" /\ total = 0 /\ idx = 0 /\ ecount = 0 /\ rcount = 0
    /\ file = NoFile /\ how = "none" /\ calls = 0
    /\ mentions = ZeroNames /\ obsCount = ZeroPairs /\ obsWeight = ZeroPairs
    /\ chunkChanged = FALSE /\ malformed = FALSE /\ relSkipped = FALSE
    /\ ck = CkIdle
    /\ dd = DdIdle
    /\ vr = VrIdle
    /\ mh = MhIdle

(* lines 51-84: the whole call *)
GraphAwareRetrieval ==
    /\ rt.pc = "call"
    /\ LET top == TopNodes(G, Keywords(rt.query), rt.k)
       IN  rt' = [rt EXCEPT !.pc = "returned",
                            !.top = top,
                            !.sub = SubgraphCopy(G, NodesToInclude(G, top))]
    /\ UNCHANGED <<buildVars, G, ck, dd, vr, mh>>

RetrievalNext == GraphAwareRetrieval

RetrievalSpec == RetrievalInit /\ [][RetrievalNext]_vars

----------------------------------------------------------------------------
(* AgentWorkflow.py: retrieve_with_graph(query, chunks, embeddings, G, k).
   A chunk is its index 0..n-1 in chunks; sims[i + 1] is the cosine
   similarity of chunk i to the query, in hundredths. *)
VecSimValues == {50, 90}

SimVectors == UNION {[1..n -> VecSimValues] : n \in 0..MaxVecChunks}

(* np.argsort(sims): the index arrays that put sims in ascending order.  The
   default kind is "quicksort", which is not stable: the order of the indices
   of equal values depends on the numpy build, so each such order is an
   outcome *)
ArgSorts(sims) ==
    {p \in [1..Len(sims) -> 0..(Len(sims) - 1)] :
        /\ \A a, b \in 1..Len(sims) : a # b => p[a] # p[b]
        /\ \A a, b \in 1..Len(sims) : a < b => sims[p[a] + 1] <= sims[p[b] + 1]}

(* a[-k:] for k >= 0: the last k items, and the whole array when k is 0 or
   exceeds its length *)
LastK(a, k) ==
    IF k = 0 \/ k >= Len(a) THEN a ELSE SubSeq(a, Len(a) - k + 1, Len(a))

(* a[::-1] *)
Reversed(a) == [i \in 1..Len(a) |-> a[Len(a) + 1 - i]]

(* line 105: top_indices = order[-k:][::-1] *)
TopIndices(order, k) == Reversed(LastK(order, k))

(* The graphs retrieve_with_graph is run on: the empty graph and the graphs
   of two nodes with up to MaxEdges edges *)
VectorGraphs ==
    {g \in RetrievalGraphs :
        \/ g.nodes = <<>>
        \/ /\ g.nodes = <<"Apple", "Fed">>
           /\ \A n \in NodeSet(g) : g.nattr[n] = [frequency |-> 1, type |-> "entity"]}

VectorInit ==
    /\ G \in VectorGraphs
    /\ vr \in {[pc |-> "call", query |-> q, sims |-> sims, k |-> k,
                top |-> <<>>, sub |-> EmptySubgraph] :
                  q \in Queries, sims \in SimVectors, k \in 0..MaxK}
    /\ pc = "idle" /\ total = 0 /\ idx = 0 /\ ecount = 0 /\ rcount = 0
    /\ file = NoFile /\ how = "none" /\ calls = 0
    /\ mentions = ZeroNames /\ obsCount = ZeroPairs /\ obsWeight = ZeroPairs
    /\ chunkChanged = FALSE /\ malformed = FALSE /\ relSkipped = FALSE
    /\ ck = CkIdle
    /\ dd = DdIdle
    /\ rt = RtIdle
    /\ mh = MhIdle

(* line 104: cosine_similarity(q_emb, embeddings) validates its arguments and
   raises ValueError for an embeddings array without rows; nothing in
   retrieve_with_graph catches it *)
CosineSimilarityRaises ==
    /\ vr.pc = "call"
    /\ Len(vr.sims) = 0
    /\ vr' = [vr EXCEPT !.pc = "raised"]
    /\ UNCHANGED <<buildVars, G, ck, dd, rt, mh>>

(* lines 103-109: the vector retrieval, then the call of
   graph_aware_retrieval(G, query, k) *)
VectorRetrieval ==
    /\ vr.pc = "call"
    /\ Len(vr.sims) > 0
    /\ \E order \in ArgSorts(vr.sims) :
          vr' = [vr EXCEPT !.pc = "graph", !.top = TopIndices(order, vr.k)]
    /\ rt' = [pc |-> "call", query |-> vr.query, k |-> vr.k, top |-> <<>>,
              sub |-> EmptySubgraph]
    /\ UNCHANGED <<buildVars, G, ck, dd, mh>>

(* lines 109-111: subgraph = the result of the call; return both results *)
RetrieveReturn ==
    /\ vr.pc = "graph"
    /\ rt.pc = "returned"
    /\ vr' = [vr EXCEPT !.pc = "returned", !.sub = rt.sub]
    /\ UNCHANGED <<buildVars, G, ck, dd, rt, mh>>

VectorNext ==
    \/ CosineSimilarityRaises
    \/ VectorRetrieval
    \/ GraphAwareRetrieval
    \/ RetrieveReturn

VectorSpec == VectorInit /\ [][VectorNext]_vars

----------------------------------------------------------------------------
(* AgentWorkflow.py: multi_hop_reasoning(G, start_node, end_node, max_hops),
   with nx.all_simple_paths as networkx computes it. *)

(* the paths collected before the loop breaks (line 93) *)
PathLimit == 3

(* G[u]: the successors of u in the order their edges were added *)
SuccessorSeq(g, u) ==
    LET out == SelectSeq(g.edges, LAMBDA e : e[1] = u)
    IN  [i \in 1..Len(out) |-> out[i][2]]

(* set(target) of a string: its characters *)
Chars(str) == {SubSeq(str, i, i) : i \in 1..Len(str)}

(* all_simple_paths: "if target in G: targets = {target}; else: targets =
   set(target)", NodeNotFound being raised only when set() fails; a string
   that is not a node becomes the set of its characters *)
PathTargets(g, target) ==
    IF has_node(g, target) THEN {target} ELSE Chars(target)

(* the depth-first generator: the children of the last node of path from the
   i-th on, each child not on the path yielding the extended path when it is
   a target, and being descended into while the path has fewer than cutoff
   edges and a target is still off the path *)
RECURSIVE DfsFrom(_, _, _, _, _)
DfsFrom(g, path, i, targets, cutoff) ==
    LET children == SuccessorSeq(g, path[Len(path)])
    IN  IF i > Len(children) THEN <<>>
        ELSE LET child == children[i]
                 here ==
                    IF child \in SeqToSet(path) THEN <<>>
                    ELSE (IF child \in targets THEN <<Append(path, child)>> ELSE <<>>)
                         \o (IF /\ Len(path) < cutoff
                                /\ targets \ (SeqToSet(path) \cup {child}) # {}
                             THEN DfsFrom(g, Append(path, child), 1, targets, cutoff)
                             ELSE <<>>)
             IN  here \o DfsFrom(g, path, i + 1, targets, cutoff)

(* nx.all_simple_paths(G, source, target, cutoff) for a source in G: the
   lists of paths it can generate.  For a source that is itself a target,
   networkx releases differ: older ones generate nothing, newer ones the
   one-node path *)
all_simple_paths(g, source, target, cutoff) ==
    LET targets == PathTargets(g, target)
    IN  IF source \in targets THEN {<<>>, << <<source>> >>}
        ELSE IF cutoff < 1 THEN {<<>>}
        ELSE {DfsFrom(g, <<source>>, 1, targets, cutoff)}

(* lines 90-95: the first PathLimit paths of the generator *)
CollectPaths(generated) == SubSeq(generated, 1, Min(PathLimit, Len(generated)))

(* The graphs path search is run on: built by add_edge from a selection of
   the edges below, added in this order or in the reverse order *)
PathEdges ==
    << <<"AAPL", "Inflation">>, <<"AAPL", "Rates">>, <<"AAPL", "Fed">>,
       <<"Inflation", "Rates">>, <<"Rates", "Inflation">>,
       <<"Inflation", "Fed">>, <<"Rates", "Fed">>, <<"AAPL", "e">> >>

RECURSIVE GraphOfEdges(_, _)
GraphOfEdges(es, i) ==
    IF i = 0 THEN EmptyGraph
    ELSE add_edge(GraphOfEdges(es, i - 1), es[i][1], es[i][2],
                  [relation |-> "affects", weight |-> 9, frequency |-> 1])

PathGraphs ==
    UNION {LET es == SelectSeq(PathEdges, LAMBDA e : e \in S)
           IN  {GraphOfEdges(es, Len(es)), GraphOfEdges(Reversed(es), Len(es))} :
             S \in SUBSET SeqToSet(PathEdges)}

PathStarts == {"AAPL", "Inflation", "Gold"}
PathEnds == {"Fed", "Rates", "AAPL"}

PathInit ==
    /\ G \in PathGraphs
    /\ mh \in {[pc |-> "call", start |-> a, end |-> b, max_hops |-> h,
                paths |-> <<>>, caught |-> FALSE] :
                  a \in PathStarts, b \in PathEnds, h \in 0..MaxHops}
    /\ pc = "idle" /\ total = 0 /\ idx = 0 /\ ecount = 0 /\ rcount = 0
    /\ file = NoFile /\ how = "none" /\ calls = 0
    /\ mentions = ZeroNames /\ obsCount = ZeroPairs /\ obsWeight = ZeroPairs
    /\ chunkChanged = FALSE /\ malformed = FALSE /\ relSkipped = FALSE
    /\ ck = CkIdle
    /\ dd = DdIdle
    /\ rt = RtIdle
    /\ vr = VrIdle

(* lines 89-97 when all_simple_paths raises NodeNotFound (the source is not a
   node of G): except: return [] *)
MultiHopNodeNotFound ==
    /\ mh.pc = "call"
    /\ ~has_node(G, mh.start)
    /\ mh' = [mh EXCEPT !.pc = "returned", !.paths = <<>>, !.caught = TRUE]
    /\ UNCHANGED <<buildVars, G, ck, dd, rt, vr>>

(* lines 89-95: the paths are collected from the generator and returned *)
MultiHopReasoning ==
    /\ mh.pc = "call"
    /\ has_node(G, mh.start)
    /\ \E generated \in all_simple_paths(G, mh.start, mh.end, mh.max_hops) :
          mh' = [mh EXCEPT !.pc = "returned", !.paths = CollectPaths(generated)]
    /\ UNCHANGED <<buildVars, G, ck, dd, rt, vr>>

PathNext == MultiHopNodeNotFound \/ MultiHopReasoning

PathSpec == PathInit /\ [][PathNext]_vars

----------------------------------------------------------------------------
(* Properties of build_graph, checked under Spec *)

(* the states of a fresh build pass, from its first chunk to its return *)
FreshPass ==
    \/ pc \in {"loop", "entities", "relations", "pagerank", "community", "save"}
    \/ pc = "returned" /\ how = "built"

Occurrences(seq, x) == Cardinality({i \in 1..Len(seq) : seq[i] = x})

(* C1: in a fresh pass every directed pair observed in an accepted relation
   is one edge whose weight is the sum of the observed confidences and whose
   frequency is the number of occurrences; no other pair is an edge *)
C1_EdgeAccumulation ==
    FreshPass =>
        \A p \in Pairs :
            IF obsCount[p] > 0
            THEN /\ Occurrences(G.edges, p) = 1
                 /\ p \in DOMAIN G.eattr
                 /\ G.eattr[p]["weight"] = obsWeight[p]
                 /\ G.eattr[p]["frequency"] = obsCount[p]
            ELSE p \notin EdgeSet(G)

(* the same relation with confidence 0.9 seen twice: weight 1.8, frequency 2 *)
C1_Witness ==
    /\ FreshPass
    /\ obsCount[<<"AAPL", "Fed">>] = 2
    /\ obsWeight[<<"AAPL", "Fed">>] = 18
    /\ obsCount[<<"AB", "Fed">>] = 1

(* C2: every node carries a frequency >= 1 equal to the number of accepted
   mentions of its name in the entity lists of the pass *)
C2_NodeFrequency ==
    FreshPass =>
        \A n \in NodeSet(G) :
            /\ Has(G.nattr[n], "frequency")
            /\ G.nattr[n]["frequency"] >= 1
            /\ G.nattr[n]["frequency"] = mentions[n]

(* C3: every edge joins two distinct nodes whose names passed the entity
   filter (length > 2), and no node has a shorter name *)
C3_EndpointsFiltered ==
    /\ \A e \in EdgeSet(G) :
          e[1] # e[2] /\ Len(e[1]) > 2 /\ Len(e[2]) > 2
    /\ \A n \in NodeSet(G) : Len(n) > 2

(* C4: a call that finds a loadable snapshot returns the pickled graph in one
   step, with no extraction, no change to the file; a snapshot once written
   is never rewritten; and a build that saved returns what it saved *)
C4_SnapshotReturned ==
    /\ [][(pc = "idle" /\ file.state = "valid") =>
            (pc' = "returned" /\ how' = "loaded" /\ G' = file.graph
             /\ file' = file /\ calls' = 0)]_vars
    /\ [][file.state = "valid" => file' = file]_vars
    /\ []((pc = "returned" /\ file.state = "valid") => G = file.graph)

(* a second call returned the snapshot of a graph with an edge *)
C4_Witness ==
    /\ pc = "returned"
    /\ how = "loaded"
    /\ Len(G.edges) > 0
    /\ G = file.graph

(* C5: a chunk whose oracle result failed or was malformed leaves the graph
   as it was when the chunk's iteration began (steps only add to the graph,
   so it is unchanged exactly when no step of the chunk changed it) *)
C5_MalformedChunkIsNoOp ==
    (pc = "loop" /\ malformed) => ~chunkChanged

MissingAnyField(r) ==
    ~Has(r, "source") \/ ~Has(r, "target") \/ ~Has(r, "relation")

(* C6 as claimed: a relation dict lacking source, target or relation leaves
   the graph as it is *)
C6_MissingFieldSkipped ==
    [][\A item \in RelationItems :
          (RelationStep(item) /\ item.kind = "dict" /\ MissingAnyField(item.val))
              => G' = G]_vars

(* C6 amended: a relation dict lacking source or target changes nothing and
   the loop goes on with the next relation of the same chunk; a dict with
   distinct source and target is merged whether or not it has a relation
   field, a new edge without one getting the label "related_to" *)
C6_MissingEndpointSkipped ==
    [][\A item \in RelationItems :
          (RelationStep(item) /\ item.kind = "dict") =>
              LET r == item.val
                  p == <<RelSrc(r), RelTgt(r)>>
              IN  /\ pc' = "relations" /\ idx' = idx
                  /\ MissingEndpoint(r) => G' = G
                  /\ (~MissingEndpoint(r) /\ r["source"] # r["target"]) =>
                        /\ p \in EdgeSet(G')
                        /\ G'.eattr[p]["frequency"] =
                              IF p \in EdgeSet(G)
                              THEN G.eattr[p]["frequency"] + 1 ELSE 1
                        /\ p \notin EdgeSet(G) =>
                              G'.eattr[p]["relation"] =
                                  IF Has(r, "relation")
                                  THEN r["relation"] ELSE "related_to"]_vars

(* in the first chunk three relations were read: one lacked an endpoint and
   was skipped, two were merged, one of them without a relation field *)
C6_Witness ==
    /\ pc = "relations"
    /\ idx = 0
    /\ rcount = 3
    /\ relSkipped
    /\ ~malformed
    /\ obsCount[<<"AAPL", "Fed">>] + obsCount[<<"AB", "Fed">>] = 2
    /\ \E p \in EdgeSet(G) : G.eattr[p]["relation"] = "related_to"

----------------------------------------------------------------------------
(* Properties of chunk_text, checked under ChunkSpec *)

(* C7: a call with overlap >= size ends in an error raised to the caller,
   never in a returned chunk list *)
C7_OverlapRejected ==
    (ck.pc \in {"returned", "raised"} /\ ck.overlap >= ck.size)
        => ck.pc = "raised"

----------------------------------------------------------------------------
(* Properties of deduplicate_chunks, checked under DedupSpec *)

Retained == SeqToSet(dd.unique)
Similar(i, j) == dd.sim[<<i, j>>] > SIMILARITY_THRESHOLD

(* C8: the output lists retained chunks in original index order, holds chunk
   0 when the input is not empty, and every dropped chunk has a retained
   leader before it whose similarity to it exceeds the threshold *)
C8_GreedyLeaders ==
    dd.pc = "returned" =>
        /\ \A a, b \in 1..Len(dd.unique) : a < b => dd.unique[a] < dd.unique[b]
        /\ Retained \subseteq 0..(dd.n - 1)
        /\ dd.n > 0 => (Len(dd.unique) > 0 /\ dd.unique[1] = 0)
        /\ \A j \in (0..(dd.n - 1)) \ Retained :
              \E i \in Retained : i < j /\ Similar(i, j)

(* of four chunks the second and the fourth were dropped, each for its own
   leader *)
C8_Witness ==
    /\ dd.pc = "returned"
    /\ dd.n = 4
    /\ dd.unique = <<0, 2>>
    /\ Similar(0, 1) /\ ~Similar(0, 3) /\ Similar(2, 3)

(* C9 as claimed: for some input (of at most as many chunks as this call's),
   two chunks similar to each other above the threshold, both at or below it
   with respect to an earlier leader, are both in the output *)
C9_SimilarPairSurvives ==
    dd.n = MaxDedupChunks =>
        \E n \in 0..dd.n : \E sim \in SimMatrices(n) :
            LET kept == SeqToSet(deduplicate_chunks(n, sim))
            IN  \E l, a, b \in kept :
                    /\ l < a /\ a < b
                    /\ sim[<<a, b>>] > SIMILARITY_THRESHOLD
                    /\ sim[<<l, a>>] <= SIMILARITY_THRESHOLD
                    /\ sim[<<l, b>>] <= SIMILARITY_THRESHOLD

(* C9 amended: no two chunks kept by the loop have a similarity above the
   threshold, whatever their similarity to earlier leaders *)
C9_NoSimilarPairRetained ==
    \A a, b \in Retained : a < b => ~Similar(a, b)

(* two chunks similar to each other and both dissimilar to the earlier leader
   0: the first is kept, the second dropped *)
C9_Witness ==
    /\ dd.pc = "returned"
    /\ dd.n >= 3
    /\ \E a, b \in 1..(dd.n - 1) :
          /\ a < b
          /\ ~Similar(0, a) /\ ~Similar(0, b) /\ Similar(a, b)
          /\ a \in Retained /\ b \notin Retained

----------------------------------------------------------------------------
(* Properties of graph_aware_retrieval, checked under RetrievalSpec *)

(* the nodes with a positive score, and the k best of them: the nodes that
   fewer than k positively scored nodes precede in the ranking by score,
   earlier insertion into the graph deciding between equal scores *)
Position(g, n) == CHOOSE i \in 1..Len(g.nodes) : g.nodes[i] = n
Scored(g, kws) == {n \in NodeSet(g) : NodeScore(g, kws, n) > 0}
Outranks(g, kws, m, n) ==
    \/ NodeScore(g, kws, m) > NodeScore(g, kws, n)
    \/ NodeScore(g, kws, m) = NodeScore(g, kws, n) /\ Position(g, m) < Position(g, n)
KBest(g, kws, k) ==
    {n \in Scored(g, kws) :
        Cardinality({m \in Scored(g, kws) : Outranks(g, kws, m, n)}) < k}

(* C10: the returned subgraph's nodes are among the k top-scored nodes with a
   positive score and their direct predecessors and successors; its edges
   are edges of the graph and all of those between its nodes, nodes and
   edges with the attributes they have in the graph; and the call leaves the
   graph as it was *)
C10_EvidenceSubgraph ==
    /\ [](rt.pc = "returned" =>
            LET best == KBest(G, Keywords(rt.query), rt.k)
                hood == best \cup UNION {Predecessors(G, n) \cup Successors(G, n) :
                                            n \in best}
            IN  /\ rt.sub.nodes \subseteq hood
                /\ rt.sub.edges \subseteq EdgeSet(G)
                /\ rt.sub.edges =
                      {e \in EdgeSet(G) : e[1] \in rt.sub.nodes /\ e[2] \in rt.sub.nodes}
                /\ \A n \in rt.sub.nodes : rt.sub.nattr[n] = G.nattr[n]
                /\ \A e \in rt.sub.edges : rt.sub.eattr[e] = G.eattr[e])
    /\ [][G' = G]_vars

(* a call with k = 1 on a graph of three nodes returned the selected node and
   its neighbour with the edge between them, and left the third node out *)
C10_Witness ==
    /\ rt.pc = "returned"
    /\ rt.k = 1
    /\ Len(G.nodes) = 3
    /\ Len(rt.top) = 1
    /\ Cardinality(rt.sub.nodes) = 2
    /\ Cardinality(rt.sub.edges) = 1
    /\ Len(G.edges) = 2

----------------------------------------------------------------------------
(* Properties of retrieve_with_graph, checked under VectorSpec *)

(* chunk i precedes chunk j in the claimed ranking: higher similarity first,
   the smaller index first among equal similarities *)
VecOutranks(sims, i, j) ==
    \/ sims[i + 1] > sims[j + 1]
    \/ sims[i + 1] = sims[j + 1] /\ i < j

(* C11: the vector part returns min(k, len(chunks)) chunks, the most similar
   ones, in descending order of similarity, the smaller index first and
   selected first among chunks of equal similarity *)
C11_VectorTopK ==
    vr.pc \in {"graph", "returned"} =>
        LET n == Len(vr.sims)
            chosen == SeqToSet(vr.top)
        IN  /\ Len(vr.top) = Min(vr.k, n)
            /\ \A a, b \in 1..Len(vr.top) :
                  a < b => VecOutranks(vr.sims, vr.top[a], vr.top[b])
            /\ \A i \in chosen : \A j \in (0..(n - 1)) \ chosen :
                  VecOutranks(vr.sims, i, j)

----------------------------------------------------------------------------
(* Properties of multi_hop_reasoning, checked under PathSpec *)

(* the simple directed paths of g from s with at most h edges, as a set *)
RECURSIVE SimplePathsUpTo(_, _, _)
SimplePathsUpTo(g, s, h) ==
    IF h = 0 THEN {<<s>>}
    ELSE LET shorter == SimplePathsUpTo(g, s, h - 1)
             longer ==
                {Append(q, v) : <<q, v>> \in
                    {x \in shorter \X NodeSet(g) :
                        /\ <<x[1][Len(x[1])], x[2]>> \in EdgeSet(g)
                        /\ x[2] \notin SeqToSet(x[1])}}
         IN  shorter \cup longer

SimplePathsTo(g, s, t, h) ==
    IF has_node(g, s) /\ has_node(g, t)
    THEN {q \in SimplePathsUpTo(g, s, h) : q[Len(q)] = t}
    ELSE {}

(* depth-first order: at the first node where two paths part, the node of
   the first path comes earlier among the successors of the node before *)
DfsBefore(g, p, q) ==
    \E i \in 2..Min(Len(p), Len(q)) :
        /\ \A j \in 1..(i - 1) : p[j] = q[j]
        /\ p[i] # q[i]
        /\ \E a, b \in 1..Len(SuccessorSeq(g, p[i - 1])) :
              /\ a < b
              /\ SuccessorSeq(g, p[i - 1])[a] = p[i]
              /\ SuccessorSeq(g, p[i - 1])[b] = q[i]

(* C12: at most 3 paths are returned, each a simple directed path from start
   to end of at most max_hops edges; they are the first such paths in
   depth-first order over the successor order (the one-node path of a call
   with start = end may or may not be among them); and the result is empty,
   with nothing raised, when start or end is not a node or no such path
   exists *)
C12_MultiHopPaths ==
    mh.pc = "returned" =>
        LET all == SimplePathsTo(G, mh.start, mh.end, mh.max_hops)
            got == SeqToSet(mh.paths)
        IN  /\ Len(mh.paths) <= PathLimit
            /\ got \subseteq all
            /\ \A a, b \in 1..Len(mh.paths) :
                  a < b => DfsBefore(G, mh.paths[a], mh.paths[b])
            /\ \A q \in all \ (got \cup {<<mh.start>>}) :
                  /\ Len(mh.paths) = PathLimit
                  /\ \A p \in got : DfsBefore(G, p, q)
            /\ (~has_node(G, mh.start) \/ ~has_node(G, mh.end) \/ all = {})
                  => mh.paths = <<>>
            /\ mh.caught => mh.paths = <<>>

----------------------------------------------------------------------------
(* C13: a call of retrieve_with_graph with no chunks, an empty graph or
   both ends by returning, never by raising, with an empty chunk list for no
   chunks and an empty subgraph for an empty graph *)
C13_EmptyInputReturnsEmpty ==
    (vr.pc \in {"returned", "raised"} /\ (Len(vr.sims) = 0 \/ Len(G.nodes) = 0))
        => /\ vr.pc = "returned"
           /\ Len(vr.sims) = 0 => vr.top = <<>>
           /\ Len(G.nodes) = 0 => (vr.sub.nodes = {} /\ vr.sub.edges = {})

----------------------------------------------------------------------------
(* Properties of graph_aware_retrieval's selection, checked under
   RetrievalSpec *)

(* C14: the selected nodes are the first k of the nodes with a positive
   score in descending order of score, the node inserted earlier into the
   graph first among nodes of equal score; each is held with its score *)
C14_TopKSelection ==
    rt.pc = "returned" =>
        LET kws == Keywords(rt.query)
            chosen == {rt.top[i].node : i \in 1..Len(rt.top)}
        IN  /\ Len(rt.top) = Min(rt.k, Cardinality(Scored(G, kws)))
            /\ chosen \subseteq Scored(G, kws)
            /\ \A i \in 1..Len(rt.top) :
                  rt.top[i].score = NodeScore(G, kws, rt.top[i].node)
            /\ \A i, j \in 1..Len(rt.top) :
                  i < j => Outranks(G, kws, rt.top[i].node, rt.top[j].node)
            /\ \A m \in chosen : \A n \in Scored(G, kws) \ chosen :
                  Outranks(G, kws, m, n)

(* k = 1 and two nodes of equal positive score: the one inserted first was
   selected, the other one left out *)
C14_Witness ==
    /\ rt.pc = "returned"
    /\ rt.k = 1
    /\ Len(rt.top) = 1
    /\ Len(G.nodes) >= 2
    /\ rt.top[1].node = G.nodes[1]
    /\ \E i \in 2..Len(G.nodes) :
          NodeScore(G, Keywords(rt.query), G.nodes[i]) = rt.top[1].score

====
